---- MODULE Spec2Model ----
(***************************************************************************)
(* Model of scripts/jira_helper.py: the JiraHelper client (list_tickets,   *)
(* update_status, get_ticket) and the command-line entry point.            *)
(*                                                                         *)
(* Text is modelled as sequences of one-character strings, so that key     *)
(* formatting, str.split, int(), str.lower and slicing are computed the    *)
(* way the interpreter computes them.  JSON values that may be absent or   *)
(* null are modelled with the markers "<absent>" and "<null>".             *)
(***************************************************************************)
EXTENDS Integers, Sequences, FiniteSets, TLC

\* ------------------------------------------------------------------ bounds
\* Largest max_results of a direct call of list_tickets.
MaxResults == 3
\* Highest ticket number that exists in a project; candidates above it
\* always answer with an error (404).
MaxTicket == 3
\* Longest list of transitions the service returns.
MaxTransitions == 2

\* --------------------------------------------------------- text primitives
DigitChars == <<"0", "1", "2", "3", "4", "5", "6", "7", "8", "9">>

IsDigit(c) == \E i \in 1..Len(DigitChars) : DigitChars[i] = c

DigitVal(c) == (CHOOSE i \in 1..Len(DigitChars) : DigitChars[i] = c) - 1

\* str(n) of a non-negative integer, as used by the f-string of the key.
RECURSIVE Str(_)
Str(n) == IF n < 10 THEN <<DigitChars[n + 1]>>
          ELSE Str(n \div 10) \o <<DigitChars[(n % 10) + 1]>>

\* int(s) for text over letters, digits and '-': the value of a non-empty
\* run of digits, and ValueError (modelled as -1) for anything else.
RECURSIVE DigitsValue(_)
DigitsValue(s) == IF Len(s) = 0 THEN 0
                  ELSE 10 * DigitsValue(SubSeq(s, 1, Len(s) - 1)) + DigitVal(s[Len(s)])

ValueError == -1

IntParse(s) == IF Len(s) > 0 /\ \A i \in 1..Len(s) : IsDigit(s[i])
               THEN DigitsValue(s)
               ELSE ValueError

\* s.split('-')
RECURSIVE Split(_)
Split(s) == IF \A i \in 1..Len(s) : s[i] # "-"
            THEN <<s>>
            ELSE LET i == CHOOSE j \in 1..Len(s) :
                              s[j] = "-" /\ \A k \in 1..(j - 1) : s[k] # "-"
                 IN  <<SubSeq(s, 1, i - 1)>> \o Split(SubSeq(s, i + 1, Len(s)))

\* str.lower over the alphabet of the modelled transition names.
LowerChar(c) == CASE c = "D" -> "d"
                  [] c = "O" -> "o"
                  [] c = "Q" -> "q"
                  [] c = "A" -> "a"
                  [] OTHER   -> c

Lower(s) == [i \in 1..Len(s) |-> LowerChar(s[i])]

\* A text of n characters whose characters alternate.
Text(n) == [i \in 1..n |-> IF i % 2 = 1 THEN "a" ELSE "b"]

\* ------------------------------------------------------------ JSON markers
Absent == "<absent>"
Null   == "<null>"
SummaryAbsent == <<"<absent>">>
SummaryNull   == <<"<null>">>

\* -------------------------------------------------------- program literals
NoSummaryText == <<"N", "o", " ", "s", "u", "m", "m", "a", "r", "y">>
Ellipsis == <<".", ".", ".">>
SummaryLimit == 60
DefaultMaxResults == 30
DefaultProject == <<"D", "X", "P">>
UnknownStatus == "Unknown"
Unassigned == "Unassigned"

\* A listing order that also names the default status.
status_order_with_unknown ==
    <<"Gathering Requirements", "Ready for Dev", "In Progress", "Ready for QA",
      "Client QA", "Ready for Deploy", "Done", "Unknown">>

status_order == <<"Gathering Requirements", "Ready for Dev", "In Progress",
                  "Ready for QA", "Client QA", "Ready for Deploy", "Done">>

\* Skipping only one of the two completed statuses.
SkippedOnlyDone == {"Done"}

SkippedStatuses == {"Done", "Ready for Deploy"}

\* f"{project}-{ticket_id}"
TicketKey(proj, n) == proj \o <<"-">> \o Str(n)

\* The marker added from the limit on (>= instead of >).
TruncateFromLimit(s) ==
    SubSeq(s, 1, IF Len(s) < SummaryLimit THEN Len(s) ELSE SummaryLimit)
        \o (IF Len(s) >= SummaryLimit THEN Ellipsis ELSE <<>>)

\* summary[:60] + ('...' if len(summary) > 60 else '')
Truncate(s) ==
    SubSeq(s, 1, IF Len(s) < SummaryLimit THEN Len(s) ELSE SummaryLimit)
        \o (IF Len(s) > SummaryLimit THEN Ellipsis ELSE <<>>)

\* The sort key of a listed ticket: int(x['key'].split('-')[1]).  Python
\* indexes from 0, so [1] is the second piece; a key always holds a '-'.
SortKey(key) == IntParse(Split(key)[2])

\* sorted(..., reverse=True) is stable: among equal keys the original order
\* is kept.  Insert x after every element whose key is >= its own.
RECURSIVE InsertDesc(_, _)
InsertDesc(sorted, x) ==
    IF Len(sorted) = 0 THEN <<x>>
    ELSE IF SortKey(sorted[1].key) >= SortKey(x.key)
         THEN <<sorted[1]>> \o InsertDesc(Tail(sorted), x)
         ELSE <<x>> \o sorted

RECURSIVE SortedDesc(_)
SortedDesc(ts) == IF Len(ts) = 0 THEN <<>>
                  ELSE InsertDesc(SortedDesc(SubSeq(ts, 1, Len(ts) - 1)), ts[Len(ts)])

\* The sort raises ValueError when int() fails on any element's key.
SortRaises(ts) == \E i \in 1..Len(ts) : SortKey(ts[i].key) = ValueError

\* ------------------------------------------------------------ service data
\* The body of one "get issue" answer.  http is "ok" (a JSON object was
\* decoded), "error" (urlopen raised), "undecodable" (json.loads raised) or
\* "nondict" (the JSON value is not an object).
NoDescription == [tag |-> Absent, content |-> <<>>]

Issue(st, su, as, de) ==
    [http |-> "ok", status |-> st, summary |-> su, assignee |-> as, description |-> de]

Failure(how) ==
    [http |-> how, status |-> Absent, summary |-> SummaryAbsent,
     assignee |-> Absent, description |-> NoDescription]

\* fields.get('status', {}).get('name', 'Unknown'): a null status raises
\* AttributeError; an absent status or an absent name gives the default.
StatusRaises(r) == r.status = Null

StatusName(r) == IF r.status \in {Absent, "<noname>"} THEN UnknownStatus ELSE r.status

\* assignee.get('displayName', 'Unassigned') if assignee else 'Unassigned':
\* a truthy value that is no object raises AttributeError.
AssigneeRaises(r) == r.assignee = "<nondict>"

AssigneeName(r) ==
    IF r.assignee \in {Absent, Null, "<nodisplay>"} THEN Unassigned ELSE r.assignee

\* fields.get('summary', 'No summary')
SummaryOf(r) == IF r.summary = SummaryAbsent THEN NoSummaryText ELSE r.summary

\* The answers the service gives to list_tickets for an existing number.
ListResponses ==
    { Failure("error"),
      Issue(Null, Text(5), Absent, NoDescription),
      Issue("In Progress", Text(60), "Bob", NoDescription),
      Issue("In Progress", Text(61), Absent, NoDescription),
      Issue("In Progress", SummaryNull, Absent, NoDescription),
      Issue("Ready for Dev", SummaryAbsent, Null, NoDescription),
      Issue("Ready for Dev", Text(3), "<nondict>", NoDescription),
      Issue("Done", Text(3), "Bob", NoDescription),
      Issue("Ready for Deploy", Text(61), Absent, NoDescription),
      Issue("Blocked", Text(3), Absent, NoDescription),
      Issue(Absent, Text(3), Absent, NoDescription) }

\* Project names given to list_tickets.
Projects == { <<"D", "X", "P">>, <<"M", "-", "P">>, <<"A", "-", "7">> }

\* ------------------------------------------------------------------- state
VARIABLES
    entry,          \* what was invoked: "main" or one method of JiraHelper
    pc,             \* position of the single thread of control
    argv,           \* sys.argv
    cred,           \* state of the credential file
    exit_code,      \* process exit code, -1 while none
    requests,       \* every HTTP request issued, in order
    out,            \* every line printed to stdout, in order
    ret,            \* return value of the invoked method
    ret_data,       \* the structure returned by get_ticket
    project, max_results, ticket_id, tickets_found,   \* list_tickets locals
    resp_log,       \* the answers list_tickets received, in order
    ticket_key, new_status,                           \* arguments
    trans_resp,     \* the answer to the transitions GET
    transition_id,  \* update_status local
    post_resp,      \* the outcome of the transition POST
    ticket_resp     \* the answer to get_ticket's GET

vars == <<entry, pc, argv, cred, exit_code, requests, out, ret, ret_data,
          project, max_results, ticket_id, tickets_found, resp_log,
          ticket_key, new_status, trans_resp, transition_id, post_resp,
          ticket_resp>>

listVars == <<project, max_results, ticket_id, tickets_found, resp_log>>
updVars  == <<new_status, trans_resp, transition_id, post_resp>>
getVars  == <<ticket_resp, ret_data>>

NoCode == 0 - 1

Request(method, endpoint, key, body) ==
    [method |-> method, endpoint |-> endpoint, key |-> key, body |-> body]

Line(kind, key, text, name, count) ==
    [kind |-> kind, key |-> key, text |-> text, name |-> name, count |-> count]

\* Control after the invoked method returns or raises: under the command
\* line the script ends (code 0) or dies of the uncaught exception (code 1).
AfterReturn == IF entry = "main" THEN "exit" ELSE "returned"
AfterRaise  == IF entry = "main" THEN "exit" ELSE "raised"
CodeAfterReturn == IF entry = "main" THEN 0 ELSE exit_code
CodeAfterRaise  == IF entry = "main" THEN 1 ELSE exit_code

\* ------------------------------------------------------------ list_tickets
\* A step of -2.
NextCandidateSkip(n) == n - 2

\* The candidate that follows n in range(max_results, 0, -1).
NextCandidate(n) == n - 1

\* One pass of the loop body on answer r for key k: the new tickets_found.
\* Every exception is swallowed by the bare except; what was assigned before
\* it was raised stays.
ListProcess(found, k, r) ==
    IF r.http # "ok" \/ StatusRaises(r) \/ AssigneeRaises(r) THEN found
    ELSE LET s == StatusName(r)
             withGroup == IF s \in DOMAIN found THEN found
                          ELSE [x \in DOMAIN found \cup {s} |->
                                    IF x = s THEN <<>> ELSE found[x]]
         IN  IF r.summary = SummaryNull THEN withGroup
             ELSE [withGroup EXCEPT ![s] = Append(@,
                      [key |-> k, summary |-> Truncate(SummaryOf(r)),
                       assignee |-> AssigneeName(r)])]

\* The answers possible for candidate n.
AnswersFor(n) == IF n <= MaxTicket THEN ListResponses ELSE {Failure("error")}

ListFetch ==
    /\ pc = "list_loop"
    /\ ticket_id >= 1
    /\ \E r \in AnswersFor(ticket_id) :
         LET k == TicketKey(project, ticket_id) IN
         /\ requests' = Append(requests, Request("GET", "issue", k, "<none>"))
         /\ resp_log' = Append(resp_log, r)
         /\ tickets_found' = ListProcess(tickets_found, k, r)
    /\ ticket_id' = NextCandidate(ticket_id)
    /\ UNCHANGED <<entry, pc, argv, cred, exit_code, out, ret, project, max_results,
                   ticket_key, updVars, getVars>>

\* The lines of one sorted group.
RECURSIVE TicketLines(_)
TicketLines(ts) ==
    IF Len(ts) = 0 THEN <<>>
    ELSE <<Line("ticket", ts[1].key, ts[1].summary, "", 0)>>
         \o (IF ts[1].assignee # Unassigned
             THEN <<Line("assignee", ts[1].key, <<>>, ts[1].assignee, 0)>>
             ELSE <<>>)
         \o TicketLines(Tail(ts))

\* The loop over status_order from position i: the lines printed and
\* whether the sort raised (which ends the printing).
RECURSIVE Display(_, _)
Display(i, found) ==
    IF i > Len(status_order) THEN [lines |-> <<>>, raised |-> FALSE]
    ELSE LET s == status_order[i] IN
         IF s \notin DOMAIN found \/ s \in SkippedStatuses
         THEN Display(i + 1, found)
         ELSE LET head == <<Line("header", <<>>, <<>>, s, Len(found[s])),
                            Line("rule", <<>>, <<>>, "", 70)>>
              IN  IF SortRaises(found[s])
                  THEN [lines |-> head, raised |-> TRUE]
                  ELSE LET rest == Display(i + 1, found)
                       IN  [lines  |-> head \o TicketLines(SortedDesc(found[s]))
                                            \o rest.lines,
                            raised |-> rest.raised]

ListDisplay ==
    /\ pc = "list_loop"
    /\ ticket_id < 1
    /\ LET d == Display(1, tickets_found) IN
       /\ out' = out \o <<Line("title", project, <<>>, "", 0),
                          Line("rule", <<>>, <<>>, "", 80)>> \o d.lines
       /\ pc' = IF d.raised THEN AfterRaise ELSE AfterReturn
       /\ exit_code' = IF d.raised THEN CodeAfterRaise ELSE CodeAfterReturn
       /\ ret' = IF d.raised THEN "<raised>" ELSE "None"
    /\ UNCHANGED <<entry, argv, cred, requests, listVars, ticket_key, updVars, getVars>>

\* ----------------------------------------------------------- update_status
NameAbsent == <<"<absent>">>
NameNull   == <<"<null>">>
NoneId     == "<None>"

Transition(name, id) == [name |-> name, id |-> id]

\* The transitions the service may list: names differing in case only, a
\* transition without a name, one without an id and one with an empty id.
TransitionPool ==
    { Transition(<<"D", "o">>, "11"),
      Transition(<<"d", "O">>, "21"),
      Transition(<<"Q", "A">>, "31"),
      Transition(NameAbsent, "41"),
      Transition(<<"D", "O">>, Absent),
      Transition(<<"d", "o">>, "") }

TransitionLists == UNION { [1..k -> TransitionPool] : k \in 0..MaxTransitions }

\* The answers to the transitions GET.  An object without the 'transitions'
\* key reads as the empty list (data.get('transitions', [])).
TransitionResponses ==
    { [http |-> h, transitions |-> <<>>] : h \in {"error", "undecodable", "nondict"} }
    \cup { [http |-> "ok", transitions |-> ts] : ts \in TransitionLists }

NoTransitions == [http |-> "<none>", transitions |-> <<>>]

\* The transition's name compared with itself.
NamesMatchSelf(a, b) == Lower(a) = Lower(a)

\* transition['name'].lower() == new_status.lower()
NamesMatch(a, b) == Lower(a) = Lower(b)

\* transition['name'] raises KeyError when the name is absent, and .lower()
\* raises AttributeError when it is null.
NameRaises(t) == t.name \in {NameAbsent, NameNull}

\* The loop that finds the transition id, from position i: whether it
\* raised, and the value of transition_id when it ended.
RECURSIVE FindFrom(_, _, _)
FindFrom(ts, name, i) ==
    IF i > Len(ts) THEN [raised |-> FALSE, id |-> NoneId]
    ELSE IF NameRaises(ts[i]) THEN [raised |-> TRUE, id |-> NoneId]
    ELSE IF NamesMatch(ts[i].name, name)
         THEN IF ts[i].id = Absent THEN [raised |-> TRUE, id |-> NoneId]
              ELSE [raised |-> FALSE, id |-> ts[i].id]
         ELSE FindFrom(ts, name, i + 1)

\* The loop without its break: a later match overwrites an earlier one.
RECURSIVE FindNoBreakFrom(_, _, _, _)
FindNoBreakFrom(ts, name, i, cur) ==
    IF i > Len(ts) THEN [raised |-> FALSE, id |-> cur]
    ELSE IF NameRaises(ts[i]) THEN [raised |-> TRUE, id |-> NoneId]
    ELSE IF NamesMatch(ts[i].name, name)
         THEN IF ts[i].id = Absent THEN [raised |-> TRUE, id |-> NoneId]
              ELSE FindNoBreakFrom(ts, name, i + 1, ts[i].id)
         ELSE FindNoBreakFrom(ts, name, i + 1, cur)

FindNoBreak(ts, name) == FindNoBreakFrom(ts, name, 1, NoneId)

FindTransition(ts, name) == FindFrom(ts, name, 1)

\* `transition_id is None`
IsNone(id) == id = NoneId

\* `not transition_id`
IsFalsy(id) == id \in {NoneId, Null, ""}

\* What the handler of `except Exception` returns.
ExceptReturn == "False"

UpdateGet ==
    /\ pc = "upd_get"
    /\ \E r \in TransitionResponses :
         LET f == FindTransition(r.transitions, new_status) IN
         /\ trans_resp' = r
         /\ requests' = Append(requests,
                               Request("GET", "transitions", ticket_key, "<none>"))
         /\ IF r.http # "ok" \/ f.raised
            THEN /\ out' = Append(out, Line("failed", ticket_key, <<>>, "", 0))
                 /\ ret' = ExceptReturn
                 /\ pc' = AfterReturn
                 /\ exit_code' = CodeAfterReturn
                 /\ UNCHANGED transition_id
            ELSE IF IsFalsy(f.id)
            THEN /\ out' = Append(out, Line("not_available", <<>>, new_status, "", 0))
                 /\ ret' = "False"
                 /\ pc' = AfterReturn
                 /\ exit_code' = CodeAfterReturn
                 /\ transition_id' = f.id
            ELSE /\ transition_id' = f.id
                 /\ pc' = "upd_post"
                 /\ UNCHANGED <<out, ret, exit_code>>
    /\ UNCHANGED <<entry, argv, cred, listVars, ticket_key, new_status, post_resp, getVars>>

UpdatePost ==
    /\ pc = "upd_post"
    /\ requests' = Append(requests,
                          Request("POST", "transitions", ticket_key, transition_id))
    /\ \E ok \in BOOLEAN :
         /\ post_resp' = IF ok THEN "ok" ELSE "error"
         /\ out' = Append(out, IF ok THEN Line("updated", ticket_key, new_status, "", 0)
                               ELSE Line("failed", ticket_key, <<>>, "", 0))
         /\ ret' = IF ok THEN "True" ELSE ExceptReturn
    /\ pc' = AfterReturn
    /\ exit_code' = CodeAfterReturn
    /\ UNCHANGED <<entry, argv, cred, listVars, ticket_key, new_status, trans_resp,
                   transition_id, getVars>>

\* -------------------------------------------------------------- get_ticket
Item(type, text) == [type |-> type, text |-> text]
Block(type, content) == [type |-> type, content |-> content]
Doc(content) == [tag |-> "doc", content |-> content]

GetResponses ==
    { Failure("error"), Failure("undecodable"), Failure("nondict"),
      Issue("In Progress", Text(3), "Bob", NoDescription),
      Issue(Null, Text(3), Absent, NoDescription),
      Issue("Done", SummaryAbsent, "<nondict>", NoDescription),
      Issue("<noname>", Text(3), "<nodisplay>", [tag |-> "string", content |-> <<>>]),
      Issue(Absent, SummaryNull, Null,
            Doc(<<Block("paragraph", <<Item("text", "Fix login bug")>>)>>)),
      Issue("In Progress", Text(3), Absent,
            Doc(<<Block("heading", <<Item("text", "Title")>>),
                  Block("paragraph", <<Item("mention", "bob"), Item("text", Absent),
                                       Item("text", "x")>>)>>)),
      Issue("In Progress", Text(3), Absent,
            Doc(<<Block("paragraph", <<Item("text", "x")>>),
                  Block("<nondict>", <<>>)>>)) }

NoData == Failure("<none>")

\* The text runs of one paragraph: item.get('text', '') of every text item.
RECURSIVE ItemLines(_)
ItemLines(items) ==
    IF Len(items) = 0 THEN <<>>
    ELSE (IF items[1].type = "text"
          THEN <<Line("text", <<>>, <<>>,
                      IF items[1].text = Absent THEN "" ELSE items[1].text, 0)>>
          ELSE <<>>)
         \o ItemLines(Tail(items))

\* The walk over description['content']: a block that is no object raises
\* AttributeError at block.get.
RECURSIVE BlockLines(_)
BlockLines(blocks) ==
    IF Len(blocks) = 0 THEN [lines |-> <<>>, raised |-> FALSE]
    ELSE IF blocks[1].type = "<nondict>" THEN [lines |-> <<>>, raised |-> TRUE]
    ELSE LET rest == BlockLines(Tail(blocks))
             mine == IF blocks[1].type = "paragraph"
                     THEN ItemLines(blocks[1].content) ELSE <<>>
         IN  [lines |-> mine \o rest.lines, raised |-> rest.raised]

\* The body of the try block of get_ticket on answer r: the lines printed
\* before it returned or raised.
GetPrint(key, r) ==
    IF r.http # "ok" THEN [lines |-> <<>>, raised |-> TRUE]
    ELSE LET l1 == Line("title", key, SummaryOf(r), "", 0)
             l2 == Line("status", <<>>, <<>>, StatusName(r), 0)
             l3 == Line("assignee", <<>>, <<>>, AssigneeName(r), 0)
         IN  IF StatusRaises(r) THEN [lines |-> <<l1>>, raised |-> TRUE]
             ELSE IF AssigneeRaises(r) THEN [lines |-> <<l1, l2>>, raised |-> TRUE]
             ELSE IF r.description.tag # "doc"
                  THEN [lines |-> <<l1, l2, l3>>, raised |-> FALSE]
                  ELSE LET b == BlockLines(r.description.content)
                       IN  [lines  |-> <<l1, l2, l3,
                                         Line("description", <<>>, <<>>, "", 0)>>
                                       \o b.lines,
                            raised |-> b.raised]

\* The data returned from the handler too.
GetReturnAlwaysData(raised) == "data"

\* What get_ticket returns: None from the handler, the data otherwise.
GetReturn(raised) == IF raised THEN "None" ELSE "data"

GetTicket ==
    /\ pc = "get_req"
    /\ requests' = Append(requests, Request("GET", "issue", ticket_key, "<none>"))
    /\ \E r \in GetResponses :
         LET p == GetPrint(ticket_key, r) IN
         /\ ticket_resp' = r
         /\ out' = out \o p.lines
                       \o (IF p.raised THEN <<Line("error", <<>>, <<>>, "", 0)>> ELSE <<>>)
         /\ ret' = GetReturn(p.raised)
         /\ ret_data' = IF GetReturn(p.raised) = "data" THEN r ELSE NoData
    /\ pc' = AfterReturn
    /\ exit_code' = CodeAfterReturn
    /\ UNCHANGED <<entry, argv, cred, listVars, ticket_key, updVars>>

\* ------------------------------------------------------- command line
Script    == <<"j">>
CmdList   == <<"l", "i", "s", "t">>
CmdGet    == <<"g", "e", "t">>
CmdStatus == <<"s", "t", "a", "t", "u", "s">>
CmdOther  == <<"r", "m">>

Keys == { <<"D", "X", "P", "-", "2">> }
StatusArgs == { <<"d", "o">>, <<"Q", "a">>, <<"z">> }

\* The command lines tried: none, each command with too few, enough and
\* one spare argument, and an unknown command.
Argvs ==
    { <<Script>>, <<Script, CmdList>>, <<Script, CmdGet>>, <<Script, CmdStatus>>,
      <<Script, CmdOther>> }
    \cup { <<Script, CmdList, <<"M", "-", "P">> >> }
    \cup { <<Script, c, k>> : c \in {CmdGet, CmdStatus}, k \in Keys }
    \cup { <<Script, CmdStatus, k, n>> : k \in Keys, n \in StatusArgs }
    \cup { <<Script, CmdGet, k, n>> : k \in Keys, n \in StatusArgs }

\* The credential file: readable, missing, or holding a token that
\* encode('ascii') rejects.
Creds == {"ok", "missing", "nonascii"}

\* JiraHelper(): open() or encode('ascii') raises on a bad credential file,
\* and the uncaught exception ends the process with code 1.
ConstructRaises(c) == c # "ok"

Construct ==
    /\ pc = "construct"
    /\ IF ConstructRaises(cred)
       THEN /\ pc' = "exit"
            /\ exit_code' = 1
       ELSE /\ pc' = "dispatch"
            /\ UNCHANGED exit_code
    /\ UNCHANGED <<entry, argv, cred, requests, out, ret, listVars, ticket_key,
                   updVars, getVars>>

UsageLines ==
    <<Line("usage", <<>>, <<>>, "Usage:", 0),
      Line("usage", <<>>, <<>>, "list [PROJECT]", 0),
      Line("usage", <<>>, <<>>, "get TICKET-KEY", 0),
      Line("usage", <<>>, <<>>, "status TICKET-KEY NEW-STATUS", 0)>>

\* The status branch checking for one argument fewer.
TooFewArgsLax(command, argc) ==
    \/ command = CmdGet /\ argc < 3
    \/ command = CmdStatus /\ argc < 3

\* The argument checks of the get and status branches: len(sys.argv) < 3
\* and len(sys.argv) < 4.
TooFewArgs(command, argc) ==
    \/ command = CmdGet /\ argc < 3
    \/ command = CmdStatus /\ argc < 4

\* sys.argv[i] exists (i counted from 0).
HasArg(i) == i < Len(argv)

\* sys.argv[i], i counted from 0.
Arg(i) == argv[i + 1]

Dispatch ==
    /\ pc = "dispatch"
    /\ IF Len(argv) < 2
       THEN /\ out' = out \o UsageLines
            /\ pc' = "exit"
            /\ exit_code' = 1
            /\ UNCHANGED <<listVars, ticket_key, new_status>>
       ELSE IF TooFewArgs(Arg(1), Len(argv))
       THEN /\ out' = Append(out,
                       IF Arg(1) = CmdGet
                       THEN Line("usage", <<>>, <<>>, "Please specify ticket key", 0)
                       ELSE Line("usage", <<>>, <<>>, "status TICKET-KEY NEW-STATUS", 0))
            /\ pc' = "exit"
            /\ exit_code' = 1
            /\ UNCHANGED <<listVars, ticket_key, new_status>>
       ELSE IF Arg(1) = CmdList
       THEN /\ project' = IF Len(argv) > 2 THEN Arg(2) ELSE DefaultProject
            /\ max_results' = DefaultMaxResults
            /\ ticket_id' = DefaultMaxResults
            /\ pc' = "list_loop"
            /\ UNCHANGED <<out, exit_code, tickets_found, resp_log, ticket_key,
                           new_status>>
       ELSE IF Arg(1) = CmdGet
       THEN IF HasArg(2)
            THEN /\ ticket_key' = Arg(2)
                 /\ pc' = "get_req"
                 /\ UNCHANGED <<out, exit_code, listVars, new_status>>
            ELSE \* IndexError, uncaught
                 /\ pc' = "exit"
                 /\ exit_code' = 1
                 /\ UNCHANGED <<out, listVars, ticket_key, new_status>>
       ELSE IF Arg(1) = CmdStatus
       THEN IF HasArg(2) /\ HasArg(3)
            THEN /\ ticket_key' = Arg(2)
                 /\ new_status' = Arg(3)
                 /\ pc' = "upd_get"
                 /\ UNCHANGED <<out, exit_code, listVars>>
            ELSE \* IndexError, uncaught
                 /\ pc' = "exit"
                 /\ exit_code' = 1
                 /\ UNCHANGED <<out, listVars, ticket_key, new_status>>
       ELSE \* unknown command: falls through, the script ends
            /\ pc' = "exit"
            /\ exit_code' = 0
            /\ UNCHANGED <<out, listVars, ticket_key, new_status>>
    /\ UNCHANGED <<entry, argv, cred, requests, ret, trans_resp, transition_id,
                   post_resp, getVars>>

\* --------------------------------------------------------- specification
EmptyFound == [s \in {} |-> <<>>]

\* Everything a fresh process or a fresh call starts from.
Fresh ==
    /\ exit_code = NoCode
    /\ requests = <<>>
    /\ out = <<>>
    /\ ret = "<unset>"
    /\ ret_data = NoData
    /\ tickets_found = EmptyFound
    /\ resp_log = <<>>
    /\ trans_resp = NoTransitions
    /\ transition_id = NoneId
    /\ post_resp = "<none>"
    /\ ticket_resp = NoData

\* python3 jira_helper.py ...
InitMain ==
    /\ entry = "main"
    /\ pc = "construct"
    /\ argv \in Argvs
    /\ cred \in Creds
    /\ project = DefaultProject /\ max_results = 0 /\ ticket_id = 0
    /\ ticket_key = <<>> /\ new_status = <<>>

\* helper.list_tickets(project, max_results)
InitList ==
    /\ entry = "list_tickets"
    /\ pc = "list_loop"
    /\ argv = <<Script>> /\ cred = "ok"
    /\ project \in Projects
    /\ max_results \in 0..MaxResults
    /\ ticket_id = max_results
    /\ ticket_key = <<>> /\ new_status = <<>>

\* helper.update_status(ticket_key, new_status)
InitUpdate ==
    /\ entry = "update_status"
    /\ pc = "upd_get"
    /\ argv = <<Script>> /\ cred = "ok"
    /\ project = DefaultProject /\ max_results = 0 /\ ticket_id = 0
    /\ ticket_key \in Keys
    /\ new_status \in StatusArgs

\* helper.get_ticket(ticket_key)
InitGet ==
    /\ entry = "get_ticket"
    /\ pc = "get_req"
    /\ argv = <<Script>> /\ cred = "ok"
    /\ project = DefaultProject /\ max_results = 0 /\ ticket_id = 0
    /\ ticket_key \in Keys
    /\ new_status = <<>>

Init == Fresh /\ (InitMain \/ InitList \/ InitUpdate \/ InitGet)

Next ==
    \/ Construct
    \/ Dispatch
    \/ ListFetch
    \/ ListDisplay
    \/ UpdateGet
    \/ UpdatePost
    \/ GetTicket

Spec == Init /\ [][Next]_vars

\* ================================================================ claims
\* Vocabulary of the claims, stated apart from the definitions above.

\* Case-insensitive equality of two texts.
SameIgnoringCase(a, b) ==
    /\ Len(a) = Len(b)
    /\ \A i \in 1..Len(a) : LowerChar(a[i]) = LowerChar(b[i])

\* Transition t carries a text name / a non-empty text id.
HasName(t) == t.name \notin {NameAbsent, NameNull}
HasId(t)   == t.id \notin {Absent, Null, ""}

\* The positions of the returned transitions whose name equals new_status.
MatchIdx ==
    { i \in 1..Len(trans_resp.transitions) :
          /\ HasName(trans_resp.transitions[i])
          /\ SameIgnoringCase(trans_resp.transitions[i].name, new_status) }

FirstMatch == CHOOSE i \in MatchIdx : \A j \in MatchIdx : i <= j

PostIdx == { i \in 1..Len(requests) : requests[i].method = "POST" }

\* update_status was called and its GET has been answered / it has ended.
UpdateAnswered == trans_resp # NoTransitions
UpdateEnded    == UpdateAnswered /\ pc \notin {"upd_get", "upd_post"}

\* C1: when the transitions GET succeeds and no returned transition's name
\* equals the requested name ignoring case, no POST is ever issued and the
\* call returns False.
C1_NoMatchNoPost ==
    (UpdateAnswered /\ trans_resp.http = "ok" /\ MatchIdx = {})
        => /\ PostIdx = {}
           /\ ret = "False"
           /\ pc = AfterReturn

C1_Witness ==
    /\ UpdateAnswered /\ trans_resp.http = "ok" /\ MatchIdx = {}
    /\ Len(trans_resp.transitions) = MaxTransitions
    /\ \A i \in 1..Len(trans_resp.transitions) : HasName(trans_resp.transitions[i])
    /\ ret = "False"

\* What a call that matched must have sent: the GET, then one POST to the
\* same ticket's transitions carrying the id of the first match.
MatchedRequests ==
    /\ Len(requests) = 2
    /\ requests[1] = Request("GET", "transitions", ticket_key, "<none>")
    /\ requests[2] = Request("POST", "transitions", ticket_key,
                             trans_resp.transitions[FirstMatch].id)

\* C2 (as stated): whenever the GET succeeds and some returned name equals
\* the requested name ignoring case, the call issues exactly one POST after
\* the GET, carrying the id of the first matching transition.
C2_MatchAlwaysPosts ==
    (UpdateEnded /\ trans_resp.http = "ok" /\ MatchIdx # {}) => MatchedRequests

\* Every transition up to the first match has a name and the first match
\* has a non-empty id.
WellFormedToMatch ==
    /\ \A i \in 1..FirstMatch : HasName(trans_resp.transitions[i])
    /\ HasId(trans_resp.transitions[FirstMatch])

\* C2 (amended): the same, for answers in which every transition up to the
\* first match carries a name and the first match a non-empty id.
C2_WellFormedMatchPosts ==
    (UpdateEnded /\ trans_resp.http = "ok" /\ MatchIdx # {} /\ WellFormedToMatch)
        => MatchedRequests

C2_Witness ==
    /\ UpdateEnded /\ trans_resp.http = "ok"
    /\ Cardinality(MatchIdx) = 2
    /\ WellFormedToMatch
    /\ trans_resp.transitions[1].id # trans_resp.transitions[2].id
    /\ requests[2].body = trans_resp.transitions[1].id

\* The number of the candidate that the i-th request of a listing asks for.
CandidateOf(i) == max_results - i + 1

\* C3: list_tickets with max_results >= 1 issues one GET per candidate, in
\* the order max_results, ..., 1, whatever the answers were: the requests
\* sent so far are always exactly the first ones of that order, the loop
\* can take its next step while candidates remain, and all max_results
\* requests have been sent when the loop is left.
C3_OneGetPerCandidate ==
    max_results >= 1 =>
        /\ Len(requests) = Len(resp_log)
        /\ Len(requests) <= max_results
        /\ \A i \in 1..Len(requests) :
               requests[i] = Request("GET", "issue",
                                     TicketKey(project, CandidateOf(i)), "<none>")
        /\ (pc = "list_loop" /\ Len(requests) < max_results) => ENABLED ListFetch
        /\ pc \notin {"list_loop", "construct", "dispatch"}
               => Len(requests) = max_results

C3_Witness ==
    /\ max_results = MaxResults
    /\ pc \notin {"list_loop", "construct", "dispatch"}
    /\ Len(requests) = max_results
    /\ resp_log[1].http = "error"
    /\ resp_log[2] = Issue("In Progress", SummaryNull, Absent, NoDescription)
    /\ resp_log[3].http = "ok"

\* The lines of the listing that show a ticket with key k.
ShownAt(k) == { i \in 1..Len(out) : out[i].kind \in {"ticket", "assignee"}
                                    /\ out[i].key = k }

HeaderIdx == { i \in 1..Len(out) : out[i].kind = "header" }
TicketLineIdx == { i \in 1..Len(out) : out[i].kind = "ticket" }

Completed == {"Done", "Ready for Deploy"}

DXP == <<"D", "X", "P">>

\* The scenario of the listing of DXP with max_results = 3: DXP-3 fails,
\* DXP-2 is a ticket In Progress, DXP-1 is Done.
Scenario ==
    /\ entry = "list_tickets" /\ pc = "returned"
    /\ project = DXP /\ max_results = 3
    /\ resp_log[1].http = "error"
    /\ resp_log[2].http = "ok" /\ resp_log[2].status = "In Progress"
    /\ resp_log[2].summary # SummaryNull
    /\ resp_log[3].http = "ok" /\ resp_log[3].status = "Done"

Preferred == {"Gathering Requirements", "Ready for Dev", "In Progress",
              "Ready for QA", "Client QA", "Ready for Deploy", "Done"}

\* C5: a ticket whose status name is not in the preferred list (a missing
\* name reads as "Unknown") is never listed, and no header outside the list
\* is printed.
C5_UnlistedStatusNeverShown ==
    /\ \A i \in HeaderIdx : out[i].name \in Preferred
    /\ \A j \in 1..Len(resp_log) :
           (resp_log[j].http = "ok" /\ resp_log[j].status \notin Preferred)
               => ShownAt(TicketKey(project, CandidateOf(j))) = {}

C5_Witness ==
    /\ pc = "returned" /\ entry = "list_tickets"
    /\ \E j \in 1..Len(resp_log) : resp_log[j].status = "Blocked"
    /\ \E j \in 1..Len(resp_log) : resp_log[j].http = "ok" /\ resp_log[j].status = Absent
    /\ TicketLineIdx # {}

\* The numeric suffix of a key: the integer after the project prefix, that
\* is, after the last '-'.
Suffix(key) == IntParse(Split(key)[Len(Split(key))])

\* The ticket lines printed under the header at line i.
GroupIdx(i) ==
    { j \in (i + 1)..Len(out) :
          /\ out[j].kind = "ticket"
          /\ \A k \in (i + 1)..j : out[k].kind # "header" }

\* list_tickets has ended, by returning or by raising.
ListEnded == max_results >= 1 /\ pc \in {"returned", "raised", "exit"}

\* C6: in every displayed status group the group's tickets are printed, in
\* strictly descending order of the numeric suffix of their key, whatever
\* the project prefix.
C6_GroupsDescending ==
    ListEnded =>
        \A i \in HeaderIdx :
            /\ Cardinality(GroupIdx(i)) = Len(tickets_found[out[i].name])
            /\ \A a, b \in GroupIdx(i) :
                   a < b => Suffix(out[a].key) > Suffix(out[b].key)

\* The listed summary the claim prescribes for a summary s.
ListedSummary(s) ==
    IF Len(s) > 60 THEN [i \in 1..63 |-> IF i <= 60 THEN s[i] ELSE "."]
    ELSE s

\* The answers whose summary is a text.
HasTextSummary(r) == r.http = "ok" /\ r.summary \notin {SummaryAbsent, SummaryNull}

\* C7: every listed ticket whose summary is longer than 60 characters shows
\* its first 60 characters followed by "...", and every other listed ticket
\* shows its summary unchanged.
C7_SummaryTruncation ==
    \A j \in 1..Len(resp_log) :
        HasTextSummary(resp_log[j]) =>
            \A i \in ShownAt(TicketKey(project, CandidateOf(j))) :
                out[i].kind = "ticket" => out[i].text = ListedSummary(resp_log[j].summary)

C7_Witness ==
    /\ ListEnded
    /\ \E j \in 1..Len(resp_log) :
           /\ HasTextSummary(resp_log[j]) /\ Len(resp_log[j].summary) = 61
           /\ \E i \in ShownAt(TicketKey(project, CandidateOf(j))) :
                  out[i].kind = "ticket" /\ Len(out[i].text) = 63
    /\ \E j \in 1..Len(resp_log) :
           /\ HasTextSummary(resp_log[j]) /\ Len(resp_log[j].summary) = 60
           /\ \E i \in ShownAt(TicketKey(project, CandidateOf(j))) :
                  out[i].kind = "ticket" /\ Len(out[i].text) = 60

\* get_ticket has ended.
GetEnded == ticket_resp # NoData

\* An error occurs in get_ticket on answer r: the request fails, the body
\* is no JSON object, or a field cannot be read.
GetFails(r) ==
    \/ r.http # "ok"
    \/ r.status = Null
    \/ r.assignee = "<nondict>"
    \/ /\ r.description.tag = "doc"
       /\ \E i \in 1..Len(r.description.content) :
              r.description.content[i].type = "<nondict>"

\* C8: get_ticket issues exactly one GET; on any error it prints the error
\* message and returns None, and otherwise it returns the fetched data.
C8_GetTicketResult ==
    GetEnded =>
        /\ requests = <<Request("GET", "issue", ticket_key, "<none>")>>
        /\ pc = AfterReturn
        /\ IF GetFails(ticket_resp)
           THEN /\ ret = "None" /\ ret_data = NoData
                /\ Len(out) >= 1
                /\ out[Len(out)].kind = "error"
           ELSE /\ ret = "data" /\ ret_data = ticket_resp
                /\ \A i \in 1..Len(out) : out[i].kind # "error"

C8_Witness ==
    /\ GetEnded
    /\ ticket_resp.http = "ok" /\ GetFails(ticket_resp)
    /\ Len(out) >= 3
    /\ out[1].kind = "title"
    /\ ret = "None"

\* The command line lacks a required argument.
MissingArgs ==
    /\ entry = "main"
    /\ \/ Len(argv) = 1
       \/ Len(argv) = 2 /\ argv[2] = CmdGet
       \/ Len(argv) \in {2, 3} /\ argv[2] = CmdStatus

UsagePrinted == \E i \in 1..Len(out) : out[i].kind = "usage"

NothingDispatched ==
    /\ pc \in {"construct", "dispatch", "exit"}
    /\ requests = <<>>

\* C9 (as stated): with a required argument missing the process prints a
\* usage message and exits with code 1 without dispatching an operation or
\* issuing a request, whether or not the credential file can be read.
C9_MissingArgsUsage ==
    MissingArgs =>
        /\ NothingDispatched
        /\ pc = "exit" => (UsagePrinted /\ exit_code = 1)

\* C9 (amended): with a required argument missing the process dispatches
\* no operation, issues no request and exits with code 1; it prints the
\* usage message exactly when the credential file could be read, because
\* the client is constructed before the arguments are looked at.
C9_MissingArgsNoDispatch ==
    MissingArgs =>
        /\ NothingDispatched
        /\ pc = "exit" => (exit_code = 1 /\ (UsagePrinted <=> cred = "ok"))

C9_Witness ==
    /\ MissingArgs /\ pc = "exit"
    /\ Len(argv) = 3
    /\ cred = "ok"
    /\ UsagePrinted /\ exit_code = 1

====
